---- MODULE Spec2Model ----
(***************************************************************************)
(* Model of backend.py: a FastAPI application holding three SQLite tables  *)
(* (items, users, messages) and a process-wide ConnectionManager whose     *)
(* broadcast() is awaited by every mutating handler and by the /ws         *)
(* handler.  Handlers declared "async def" run on one event loop: they     *)
(* interleave only at an await, so the database part of a handler and the  *)
(* start of the broadcast it awaits form one step, and each further        *)
(* "await connection.send_text" is a step of its own.  Handlers declared   *)
(* "def" run in a worker thread; their one transaction is one step too.    *)
(*                                                                         *)
(* Next is the whole application.  The properties are checked under        *)
(* restrictions of it to some of its requests (NextItems, NextMessages,    *)
(* NextHandlers, NextFanout, NextHistory, NextCatalog, NextArrivals,       *)
(* NextReads), built from the same actions.                                *)
(***************************************************************************)
EXTENDS Integers, Sequences, FiniteSets, TLC

\* Bounds of the model.
MaxId == 2
MaxBroadcasts == 3
NumConns == 2
MaxClock == 1

Strs == {"a", "b"}
Contents == {"hi"}
Frames == {"hi"}
None == "None"
Conns == 1..NumConns
Fields == {"name", "description"}
\* skip and limit of the query string: their defaults and one more value, and
\* for the items every value up to the size of the table
Skips == {0, 1}
Limits == {1, 10}
MessageLimits == {1, 100}
ItemSkips == 0..MaxId
ItemLimits == 0..MaxId
\* What a failed send_text raises depends on the server library in use:
\* starlette's WebSocketDisconnect, or any other exception type.
SendErrors == {"WebSocketDisconnect", "Other"}

VARIABLES
    items,               \* table items: id -> [name, description]
    users,               \* table users: id -> [name]
    messages,            \* table messages: id -> [sender_id, recipient_id, content, timestamp]
    clock,               \* last value read from datetime.utcnow
    active_connections,  \* manager.active_connections, a list of WebSocket handles
    ws,                  \* position of each /ws handler
    link,                \* whether the connection under a handle can still be written to
    bc,                  \* the calls of manager.broadcast that are suspended in a send
    done,                \* the handler call that ended last, with the broadcast it awaited
    calls,               \* number of calls of manager.broadcast, by kind of caller
    committed,           \* number of commits made by the five broadcasting handlers
    usedIds,             \* ids ever assigned, per table
    created              \* item id -> what create_item was given for it, for
                         \* the items not updated or deleted since

vars == <<items, users, messages, clock, active_connections, ws, link, bc,
          done, calls, committed, usedIds, created>>
store == <<items, users, messages, clock, usedIds, committed, created>>

----------------------------------------------------------------------------
\* Helpers

Range(s) == {s[i] : i \in DOMAIN s}
Max(S) == CHOOSE x \in S : \A y \in S : y <= x
Min(S) == CHOOSE x \in S : \A y \in S : x <= y
Count(s, x) == Cardinality({i \in DOMAIN s : s[i] = x})

\* list.remove(x): drops the first occurrence of x.
Remove(s, x) ==
    LET i == CHOOSE k \in DOMAIN s : s[k] = x /\ \A j \in 1..(k - 1) : s[j] # x
    IN  [k \in 1..(Len(s) - 1) |-> IF k < i THEN s[k] ELSE s[k + 1]]

\* An INTEGER PRIMARY KEY column of SQLite declared without AUTOINCREMENT:
\* the new rowid is one more than the largest rowid in the table, 1 if empty.
NextId(table) == IF DOMAIN table = {} THEN 1 ELSE Max(DOMAIN table) + 1

Put(table, id, row) ==
    [k \in DOMAIN table \cup {id} |-> IF k = id THEN row ELSE table[k]]
Drop(table, ids) == [k \in DOMAIN table \ ids |-> table[k]]

\* ItemUpdate.dict(exclude_unset=True): the fields present in the request
\* body, with their values.
Payloads == UNION {[K -> Strs] : K \in SUBSET Fields}

\* item.dict() without exclude_unset: an absent field comes out as its default
ApplyUpdate_AllFields(db_item, update_data) ==
    [f \in Fields |-> IF f \in DOMAIN update_data THEN update_data[f] ELSE None]

\* the setattr loop of update_item
ApplyUpdate(db_item, update_data) ==
    [f \in Fields |-> IF f \in DOMAIN update_data THEN update_data[f] ELSE db_item[f]]

\* Item(**item.dict()) with the description left out
NewItem_NameOnly(name, description) == [name |-> name, description |-> None]

\* Item(**item.dict()) in create_item
NewItem(name, description) == [name |-> name, description |-> description]

\* A query without ORDER BY on one table: SQLite walks the table's b-tree,
\* smallest rowid first.
RECURSIVE Scan(_)
Scan(ids) ==
    IF ids = {} THEN <<>> ELSE <<Min(ids)>> \o Scan(ids \ {Min(ids)})

\* .offset(skip).limit(limit) without the offset
Page_NoOffset(rows, skip, limit) ==
    IF limit < 0 \/ limit >= Len(rows) THEN rows ELSE SubSeq(rows, 1, limit)

\* .offset(skip).limit(limit): LIMIT limit OFFSET skip.  SQLite takes a
\* negative offset as 0 and a negative limit as no limit.
Page(rows, skip, limit) ==
    LET rest == IF skip <= 0 THEN rows
                ELSE IF skip >= Len(rows) THEN <<>>
                ELSE SubSeq(rows, skip + 1, Len(rows))
    IN  IF limit < 0 \/ limit >= Len(rest) THEN rest ELSE SubSeq(rest, 1, limit)

RemoveAt(s, i) == [k \in 1..(Len(s) - 1) |-> IF k < i THEN s[k] ELSE s[k + 1]]

\* A call of broadcast(message) by handler op (conn = 0: an HTTP handler,
\* otherwise the /ws handler of that connection).  snapshot, sent and failedOn
\* record who was registered at the call and what the loop did.
NewBroadcast(op, conn, payload, fields) ==
    [op |-> op, conn |-> conn, payload |-> payload, fields |-> fields,
     idx |-> 0, state |-> "running",
     snapshot |-> Range(active_connections),
     sent |-> <<>>, failedOn |-> 0, exc |-> "", status |-> 0, body |-> <<>>]

\* A handler call that ended without calling broadcast.
Completed(op, status) ==
    [op |-> op, conn |-> 0, payload |-> <<>>, fields |-> {},
     idx |-> 0, state |-> "none",
     snapshot |-> {}, sent |-> <<>>, failedOn |-> 0, exc |-> "", status |-> status,
     body |-> <<>>]

----------------------------------------------------------------------------
Init ==
    /\ items = <<>>
    /\ users = <<>>
    /\ messages = <<>>
    /\ clock = 0
    /\ active_connections = <<>>
    /\ ws = [c \in Conns |-> "idle"]
    /\ link = [c \in Conns |-> "closed"]
    /\ bc = <<>>
    /\ done = Completed("none", 0)
    /\ calls = [http |-> 0, ws |-> 0]
    /\ committed = 0
    /\ usedIds = [items |-> {}, users |-> {}, messages |-> {}]
    /\ created = <<>>

----------------------------------------------------------------------------
\* ConnectionManager.broadcast and the handler awaiting it.  t is the place of
\* the call in bc, 0 for a call that is being made in this step.

Suspend(t, b) ==
    /\ bc' = IF t = 0 THEN Append(bc, b) ELSE [bc EXCEPT ![t] = b]
    /\ done' = done

Finish(t, b) ==
    /\ bc' = IF t = 0 THEN bc ELSE RemoveAt(bc, t)
    /\ done' = b

\* The for loop is exhausted: broadcast returns and the awaiting handler goes
\* on, an HTTP handler to its return statement, the /ws handler to receive_text.
return_normally(t, b, w) ==
    /\ Finish(t, [b EXCEPT !.state = "done",
                           !.status = IF b.conn = 0 THEN 200 ELSE 0])
    /\ ws' = IF b.conn = 0 THEN w ELSE [w EXCEPT ![b.conn] = "receiving"]
    /\ UNCHANGED <<active_connections, link>>

\* send_text raised b.exc: nothing in broadcast catches it, so it leaves the
\* loop and reaches the awaiting handler.  An HTTP handler does not catch it
\* either (the framework answers 500); websocket_endpoint catches
\* WebSocketDisconnect alone, and then unregisters its own websocket.
raise(t, b, w) ==
    /\ Finish(t, [b EXCEPT !.state = "failed",
                           !.status = IF b.conn = 0 THEN 500 ELSE 0])
    /\ IF b.conn = 0
       THEN /\ ws' = w
            /\ UNCHANGED <<active_connections, link>>
       ELSE /\ link' = [link EXCEPT ![b.conn] = "closed"]
            /\ IF b.exc = "WebSocketDisconnect"
               THEN /\ active_connections' = Remove(active_connections, b.conn)
                    /\ ws' = [w EXCEPT ![b.conn] = "closed"]
               ELSE /\ active_connections' = active_connections
                    /\ ws' = [w EXCEPT ![b.conn] = "crashed"]

\* broadcast, from where it stands up to its next await: the list iterator
\* reads active_connections[idx] of the list as it is now.
broadcast(t, b, w) ==
    IF b.idx >= Len(active_connections)
    THEN return_normally(t, b, w)
    ELSE LET connection == active_connections[b.idx + 1] IN
         IF link[connection] = "open"
         THEN /\ Suspend(t, [b EXCEPT !.idx = @ + 1,
                                      !.sent = Append(@, connection)])
              /\ ws' = w
              /\ UNCHANGED <<active_connections, link>>
         ELSE \E e \in SendErrors :
                 raise(t, [b EXCEPT !.idx = @ + 1, !.failedOn = connection,
                                    !.exc = e], w)

\* a suspended broadcast is resumed after its send_text
broadcast_resume(t) ==
    /\ broadcast(t, bc[t], ws)
    /\ UNCHANGED <<store, calls>>

\* "await manager.broadcast(message)" at the end of an HTTP handler
AwaitBroadcast(op, message, fields) ==
    /\ calls.http + calls.ws < MaxBroadcasts
    /\ calls' = [calls EXCEPT !.http = @ + 1]
    /\ broadcast(0, NewBroadcast(op, 0, <<message>>, fields), ws)

\* raise HTTPException(status_code=404, ...)
NotFound(op) ==
    /\ done' = Completed(op, 404)
    /\ UNCHANGED <<store, active_connections, ws, link, bc, calls>>

----------------------------------------------------------------------------
\* HTTP handlers

create_item(name, description) ==
    LET id == NextId(items) IN
    /\ id <= MaxId
    /\ items' = Put(items, id, NewItem(name, description))
    /\ usedIds' = [usedIds EXCEPT !.items = @ \cup {id}]
    /\ created' = Put(created, id, [name |-> name, description |-> description])
    /\ committed' = committed + 1
    /\ UNCHANGED <<users, messages, clock>>
    /\ AwaitBroadcast("create_item", "update", {})

\* update_item with its broadcast going out before the change is in the table
update_item_BroadcastFirst(item_id, item) ==
    IF item_id \notin DOMAIN items
    THEN NotFound("update_item")
    ELSE /\ committed' = committed + 1
         /\ UNCHANGED <<items, created, users, messages, clock, usedIds>>
         /\ AwaitBroadcast("update_item", "update", DOMAIN item)

update_item(item_id, item) ==
    IF item_id \notin DOMAIN items
    THEN NotFound("update_item")
    ELSE /\ items' = [items EXCEPT ![item_id] = ApplyUpdate(@, item)]
         /\ created' = Drop(created, {item_id})
         /\ committed' = committed + 1
         /\ UNCHANGED <<users, messages, clock, usedIds>>
         /\ AwaitBroadcast("update_item", "update", DOMAIN item)

\* delete_item without its broadcast
delete_item_Silent(item_id) ==
    IF item_id \notin DOMAIN items
    THEN NotFound("delete_item")
    ELSE /\ items' = Drop(items, {item_id})
         /\ created' = Drop(created, {item_id})
         /\ committed' = committed + 1
         /\ done' = Completed("delete_item", 200)
         /\ UNCHANGED <<users, messages, clock, usedIds, active_connections,
                        ws, link, bc, calls>>

delete_item(item_id) ==
    IF item_id \notin DOMAIN items
    THEN NotFound("delete_item")
    ELSE /\ items' = Drop(items, {item_id})
         /\ created' = Drop(created, {item_id})
         /\ committed' = committed + 1
         /\ UNCHANGED <<users, messages, clock, usedIds>>
         /\ AwaitBroadcast("delete_item", "update", {})

\* create_user ending in a broadcast like the other handlers
create_user_Broadcasting(name) ==
    LET id == NextId(users) IN
    /\ id <= MaxId
    /\ users' = Put(users, id, [name |-> name])
    /\ usedIds' = [usedIds EXCEPT !.users = @ \cup {id}]
    /\ UNCHANGED <<items, messages, clock, committed, created>>
    /\ AwaitBroadcast("create_user", "update", {})

\* a plain "def": no broadcast
create_user(name) ==
    LET id == NextId(users) IN
    /\ id <= MaxId
    /\ users' = Put(users, id, [name |-> name])
    /\ usedIds' = [usedIds EXCEPT !.users = @ \cup {id}]
    /\ done' = Completed("create_user", 200)
    /\ UNCHANGED <<items, messages, clock, committed, created,
                   active_connections, ws, link, bc, calls>>

\* delete_user without the bulk delete
DependentMessages_None(user_id) == {}

\* the bulk delete of messages in delete_user
DependentMessages(user_id) ==
    {m \in DOMAIN messages : \/ messages[m].sender_id = user_id
                             \/ messages[m].recipient_id = user_id}

delete_user(user_id) ==
    IF user_id \notin DOMAIN users
    THEN NotFound("delete_user")
    ELSE /\ messages' = Drop(messages, DependentMessages(user_id))
         /\ users' = Drop(users, {user_id})
         /\ committed' = committed + 1
         /\ UNCHANGED <<items, clock, usedIds, created>>
         /\ AwaitBroadcast("delete_user", "user_deleted", {})

\* create_message without the lookup of the sender
create_message_Unchecked(sender_id, content, now) ==
    LET id == NextId(messages) IN
    /\ id <= MaxId
    /\ messages' = Put(messages, id,
           [sender_id |-> sender_id, recipient_id |-> 0,
            content |-> content, timestamp |-> now])
    /\ clock' = now
    /\ usedIds' = [usedIds EXCEPT !.messages = @ \cup {id}]
    /\ committed' = committed + 1
    /\ UNCHANGED <<items, users, created>>
    /\ AwaitBroadcast("create_message", "update", {})

\* recipient_id is never set: the column stays NULL (0 here); the timestamp
\* is the column default, datetime.utcnow at the insert
create_message(sender_id, content, now) ==
    IF sender_id \notin DOMAIN users
    THEN NotFound("create_message")
    ELSE LET id == NextId(messages) IN
         /\ id <= MaxId
         /\ messages' = Put(messages, id,
                [sender_id |-> sender_id, recipient_id |-> 0,
                 content |-> content, timestamp |-> now])
         /\ clock' = now
         /\ usedIds' = [usedIds EXCEPT !.messages = @ \cup {id}]
         /\ committed' = committed + 1
         /\ UNCHANGED <<items, users, created>>
         /\ AwaitBroadcast("create_message", "update", {})

----------------------------------------------------------------------------
\* HTTP handlers that only read.  They are plain "def": one query each, no
\* commit, no broadcast.

\* the response of a handler that returns rows
Response(op, body) == [Completed(op, 200) EXCEPT !.body = body]

Answer(op, body) ==
    /\ done' = Response(op, body)
    /\ UNCHANGED <<store, active_connections, ws, link, bc, calls>>

ItemRow(id) ==
    [id |-> id, name |-> items[id].name, description |-> items[id].description]
UserRow(id) == [id |-> id, name |-> users[id].name]

read_item(item_id) ==
    IF item_id \notin DOMAIN items
    THEN NotFound("read_item")
    ELSE Answer("read_item", <<ItemRow(item_id)>>)

read_items(skip, limit) ==
    LET rows == Page(Scan(DOMAIN items), skip, limit)
    IN  Answer("read_items", [i \in DOMAIN rows |-> ItemRow(rows[i])])

read_users(skip, limit) ==
    LET rows == Page(Scan(DOMAIN users), skip, limit)
    IN  Answer("read_users", [i \in DOMAIN rows |-> UserRow(rows[i])])

\* the query of read_messages without its order_by
OrderByTimestamp_ScanOrder(rows) == rows

\* ORDER BY messages.timestamp: SQLite's sorter orders the scanned rows by
\* the key and keeps rows of equal key in the order they were scanned.
RECURSIVE OrderByTimestamp(_)
OrderByTimestamp(rows) ==
    IF rows = <<>> THEN <<>>
    ELSE LET sorted == OrderByTimestamp(SubSeq(rows, 1, Len(rows) - 1))
             m == rows[Len(rows)]
             k == Cardinality({i \in DOMAIN sorted :
                     messages[sorted[i]].timestamp <= messages[m].timestamp})
         IN  SubSeq(sorted, 1, k) \o <<m>> \o SubSeq(sorted, k + 1, Len(sorted))

\* MessageResponse(...) built from a row and its sender relationship
MessageResponse(m) ==
    [id |-> m, sender_id |-> messages[m].sender_id,
     sender_name |-> users[messages[m].sender_id].name,
     content |-> messages[m].content, timestamp |-> messages[m].timestamp]

\* message.sender is None for a message whose sender row is gone, and
\* message.sender.name then raises: the framework answers 500
read_messages(skip, limit) ==
    LET rows == Page(OrderByTimestamp(Scan(DOMAIN messages)), skip, limit)
    IN  IF \E i \in DOMAIN rows : messages[rows[i]].sender_id \notin DOMAIN users
        THEN /\ done' = Completed("read_messages", 500)
             /\ UNCHANGED <<store, active_connections, ws, link, bc, calls>>
        ELSE Answer("read_messages", [i \in DOMAIN rows |-> MessageResponse(rows[i])])

----------------------------------------------------------------------------
\* The /ws handler

\* a connect that hands the last broadcast to the new observer
connect_Replay(c) ==
    /\ ws[c] = "idle"
    /\ active_connections' = Append(active_connections, c)
    /\ ws' = [ws EXCEPT ![c] = "receiving"]
    /\ link' = [link EXCEPT ![c] = "open"]
    /\ done' = [done EXCEPT !.sent = Append(@, c)]
    /\ UNCHANGED <<store, bc, calls>>

\* manager.connect: accept, then append
connect(c) ==
    /\ ws[c] = "idle"
    /\ active_connections' = Append(active_connections, c)
    /\ ws' = [ws EXCEPT ![c] = "receiving"]
    /\ link' = [link EXCEPT ![c] = "open"]
    /\ UNCHANGED <<store, bc, done, calls>>

\* the peer goes away; its handler learns of it at its next receive_text
client_close(c) ==
    /\ ws[c] \in {"receiving", "broadcasting"}
    /\ link[c] = "open"
    /\ link' = [link EXCEPT ![c] = "closed"]
    /\ UNCHANGED <<store, active_connections, ws, bc, done, calls>>

\* receive_text returns a frame: broadcast it
receive_text(c, data) ==
    /\ ws[c] = "receiving"
    /\ link[c] = "open"
    /\ calls.http + calls.ws < MaxBroadcasts
    /\ calls' = [calls EXCEPT !.ws = @ + 1]
    /\ broadcast(0,
                 NewBroadcast("websocket_endpoint", c, <<"Client says: ", data>>, {}),
                 [ws EXCEPT ![c] = "broadcasting"])
    /\ UNCHANGED store

\* receive_text raises WebSocketDisconnect: manager.disconnect(websocket)
receive_disconnect(c) ==
    /\ ws[c] = "receiving"
    /\ link[c] = "closed"
    /\ active_connections' = Remove(active_connections, c)
    /\ ws' = [ws EXCEPT ![c] = "closed"]
    /\ UNCHANGED <<store, link, bc, done, calls>>

\* receive_text raises anything else (a frame that is not text): no except
\* clause matches, the handler ends and the server drops the connection
receive_error(c) ==
    /\ ws[c] = "receiving"
    /\ link[c] = "open"
    /\ ws' = [ws EXCEPT ![c] = "crashed"]
    /\ link' = [link EXCEPT ![c] = "closed"]
    /\ UNCHANGED <<store, active_connections, bc, done, calls>>

----------------------------------------------------------------------------
\* The whole application.
Next ==
    \/ \E name \in Strs, description \in Strs : create_item(name, description)
    \/ \E item_id \in 1..MaxId, item \in Payloads : update_item(item_id, item)
    \/ \E item_id \in 1..MaxId : delete_item(item_id)
    \/ \E name \in Strs : create_user(name)
    \/ \E user_id \in 1..MaxId : delete_user(user_id)
    \/ \E sender_id \in 1..MaxId, content \in Contents, now \in 0..MaxClock :
          create_message(sender_id, content, now)
    \/ \E item_id \in 1..MaxId : read_item(item_id)
    \/ \E skip \in ItemSkips, limit \in ItemLimits : read_items(skip, limit)
    \/ \E skip \in Skips, limit \in Limits : read_users(skip, limit)
    \/ \E skip \in Skips, limit \in MessageLimits : read_messages(skip, limit)
    \/ \E c \in Conns : connect(c)
    \/ \E c \in Conns : client_close(c)
    \/ \E c \in Conns, data \in Frames : receive_text(c, data)
    \/ \E c \in Conns : receive_disconnect(c)
    \/ \E c \in Conns : receive_error(c)
    \/ \E t \in DOMAIN bc : broadcast_resume(t)

Spec == Init /\ [][Next]_vars

\* The tables are independent of each other and of the registry, which no
\* handler reads before it commits.  The specifications below are the
\* application restricted to some of its requests; those about the tables
\* keep one observer, whose connection may come and go.
Observer ==
    \/ connect(1)
    \/ client_close(1)
    \/ receive_disconnect(1)

\* Requests on items, next to a user and the messages it sends.
ItemPayloads == UNION {[K -> {"b"}] : K \in SUBSET Fields}

NextItems ==
    \/ create_item("a", "a")
    \/ \E item_id \in 1..MaxId, item \in ItemPayloads : update_item(item_id, item)
    \/ \E item_id \in 1..MaxId : delete_item(item_id)
    \/ create_user("a")
    \/ create_message(1, "hi", clock)
    \/ Observer
    \/ \E t \in DOMAIN bc : broadcast_resume(t)

SpecItems == Init /\ [][NextItems]_vars

\* Requests on users and messages only.
NextMessages ==
    \/ create_user("a")
    \/ \E user_id \in 1..MaxId : delete_user(user_id)
    \/ \E sender_id \in 1..MaxId, content \in Contents, now \in clock..MaxClock :
          create_message(sender_id, content, now)
    \/ Observer
    \/ \E t \in DOMAIN bc : broadcast_resume(t)

SpecMessages == Init /\ [][NextMessages]_vars

\* Every handler, each with one value for every string of its request.
HandlerPayloads == {[name |-> "b"]}

NextHandlers ==
    \/ create_item("a", "a")
    \/ \E item_id \in 1..MaxId, item \in HandlerPayloads : update_item(item_id, item)
    \/ \E item_id \in 1..MaxId : delete_item(item_id)
    \/ create_user("a")
    \/ \E user_id \in 1..MaxId : delete_user(user_id)
    \/ \E sender_id \in 1..MaxId : create_message(sender_id, "hi", clock)
    \/ Observer
    \/ \E t \in DOMAIN bc : broadcast_resume(t)

SpecHandlers == Init /\ [][NextHandlers]_vars

\* The registry and the broadcasts: every /ws step of every connection, with
\* create_item and delete_item as the HTTP callers of broadcast.
NextFanout ==
    \/ create_item("a", "a")
    \/ \E item_id \in 1..MaxId : delete_item(item_id)
    \/ \E c \in Conns : connect(c)
    \/ \E c \in Conns : client_close(c)
    \/ \E c \in Conns, data \in Frames : receive_text(c, data)
    \/ \E c \in Conns : receive_disconnect(c)
    \/ \E c \in Conns : receive_error(c)
    \/ \E t \in DOMAIN bc : broadcast_resume(t)

SpecFanout == Init /\ [][NextFanout]_vars

\* The message history: users, their messages and GET /messages, with no
\* observer connected.  The timestamp is the wall clock at the insert, which
\* may be set back between two requests.
NextHistory ==
    \/ create_user("a")
    \/ \E user_id \in 1..MaxId : delete_user(user_id)
    \/ \E sender_id \in 1..MaxId, now \in 0..MaxClock :
          create_message(sender_id, "hi", now)
    \/ \E skip \in Skips, limit \in MessageLimits : read_messages(skip, limit)

SpecHistory == Init /\ [][NextHistory]_vars

\* The items and their two reads, with no observer connected.
NextCatalog ==
    \/ \E name \in Strs, description \in Strs : create_item(name, description)
    \/ \E item_id \in 1..MaxId, item \in HandlerPayloads : update_item(item_id, item)
    \/ \E item_id \in 1..MaxId : delete_item(item_id)
    \/ \E item_id \in 1..MaxId : read_item(item_id)
    \/ \E skip \in ItemSkips, limit \in ItemLimits : read_items(skip, limit)

SpecCatalog == Init /\ [][NextCatalog]_vars

\* Observers that come and go while items are created: the registry under
\* broadcasts of one HTTP handler, with no frames from the observers.
NextArrivals ==
    \/ create_item("a", "a")
    \/ \E c \in Conns : connect(c)
    \/ \E c \in Conns : client_close(c)
    \/ \E c \in Conns : receive_disconnect(c)
    \/ \E t \in DOMAIN bc : broadcast_resume(t)

SpecArrivals == Init /\ [][NextArrivals]_vars

\* The handlers that call no broadcast, next to two that do and an observer.
NextReads ==
    \/ create_user("a")
    \/ \E item_id \in 1..MaxId : read_item(item_id)
    \/ \E skip \in Skips, limit \in Limits : read_items(skip, limit)
    \/ \E skip \in Skips, limit \in Limits : read_users(skip, limit)
    \/ \E skip \in Skips, limit \in MessageLimits : read_messages(skip, limit)
    \/ create_item("a", "a")
    \/ create_message(1, "hi", clock)
    \/ Observer
    \/ \E t \in DOMAIN bc : broadcast_resume(t)

SpecReads == Init /\ [][NextReads]_vars

----------------------------------------------------------------------------
\* Properties

Registered == Range(active_connections)
Ended == done.state \in {"done", "failed"}

\* C1: when a send fails during a broadcast, every other observer that was
\* registered at the call, and still is, has been tried by the time the
\* broadcast ends.
C1_FailureDoesNotStopDelivery ==
    done.state = "failed" =>
        \A c \in done.snapshot \cap Registered :
            c \in Range(done.sent) \cup {done.failedOn}

\* C2: a broadcast in which no send fails delivers exactly once to every
\* observer that was registered at the call and is registered still, whatever
\* other observers connected or disconnected while it was suspended.
C2_DeliveredExactlyOnce ==
    done.state = "done" =>
        \A c \in done.snapshot \cap Registered : Count(done.sent, c) = 1

\* C3: the five mutating handlers have called broadcast as many times as they
\* have committed.
C3_OneBroadcastPerCommit == calls.http = committed

C3_Witness ==
    /\ committed = 2
    /\ done.op = "delete_user"
    /\ done.state = "done"
    /\ calls.ws = 0

\* A request answered 404: nothing stored has changed, broadcast was not called.
Rejected(op) ==
    /\ done' = Completed(op, 404)
    /\ UNCHANGED <<items, users, messages>>
    /\ UNCHANGED <<bc, calls, active_connections>>

\* C4: update_item and delete_item of an absent item, delete_user of an absent
\* user and create_message from an absent sender answer 404, leave the three
\* tables as they were and call no broadcast.
C4_FailedMutationChangesNothing ==
    [][ /\ \A item_id \in (1..MaxId) \ DOMAIN items :
             /\ \A item \in HandlerPayloads :
                   update_item(item_id, item) => Rejected("update_item")
             /\ delete_item(item_id) => Rejected("delete_item")
        /\ \A user_id \in (1..MaxId) \ DOMAIN users :
             /\ delete_user(user_id) => Rejected("delete_user")
             /\ create_message(user_id, "hi", clock) => Rejected("create_message")
      ]_vars

C4_Witness ==
    /\ done = Completed("create_message", 404)
    /\ DOMAIN items # {}
    /\ DOMAIN users # {}
    /\ DOMAIN messages # {}
    /\ active_connections # <<>>

\* C5: every stored message has an existing user as its sender, and as its
\* recipient when it has one.
C5_MessagesReferenceUsers ==
    \A m \in DOMAIN messages :
        /\ messages[m].sender_id \in DOMAIN users
        /\ messages[m].recipient_id # 0 => messages[m].recipient_id \in DOMAIN users

\* a user with messages was deleted while another user's message stays
C5_Witness ==
    /\ done.op = "delete_user"
    /\ Ended
    /\ DOMAIN messages # {}
    /\ Cardinality(usedIds.messages) > Cardinality(DOMAIN messages)

\* C6: the id given to a new item, user or message was never given before to
\* a row of the same table.
C6_IdsNeverReused ==
    [][ /\ create_item("a", "a") => NextId(items) \notin usedIds.items
        /\ create_user("a") => NextId(users) \notin usedIds.users
        /\ \A sender_id \in DOMAIN users :
             create_message(sender_id, "hi", clock)
                 => NextId(messages) \notin usedIds.messages
      ]_vars

\* C7: an HTTP handler whose commit succeeded answers 200, whatever the
\* broadcast it awaited did.
C7_CommitMeansSuccessResponse ==
    (done.conn = 0 /\ Ended) => done.status = 200

\* C8: the handle whose send failed is out of the registry when that
\* broadcast has ended.
C8_FailedHandleUnregistered ==
    done.state = "failed" => done.failedOn \notin Registered

\* C9: the handle of a /ws handler that has ended, however it ended, is not
\* in the registry.
C9_EndedHandlerUnregistered ==
    \A c \in Conns : ws[c] \in {"closed", "crashed"} => c \notin Registered

\* C10: update_item of an existing item sets the fields of the request and
\* leaves the item's other fields, its id, the other items and every user and
\* message as they were.
C10_UpdateTouchesOnlyGivenFields ==
    [][ \A item_id \in DOMAIN items, item \in ItemPayloads :
            update_item(item_id, item) =>
                /\ DOMAIN items' = DOMAIN items
                /\ \A f \in DOMAIN item : items'[item_id][f] = item[f]
                /\ \A f \in Fields \ DOMAIN item :
                       items'[item_id][f] = items[item_id][f]
                /\ \A other \in DOMAIN items \ {item_id} :
                       items'[other] = items[other]
                /\ UNCHANGED <<users, messages>>
      ]_vars

\* a name-only update has been made next to a second item and a user
C10_Witness ==
    /\ done.op = "update_item"
    /\ done.fields = {"name"}
    /\ done.status = 200
    /\ DOMAIN users # {}
    /\ \E i, j \in DOMAIN items :
          /\ i # j
          /\ items[i] = [name |-> "b", description |-> "a"]
          /\ items[j] = [name |-> "a", description |-> "a"]

\* C11: read_messages returns stored messages, each once, in ascending order
\* of timestamp, and two of equal timestamp in the order they were inserted;
\* with no skip and a limit that is large enough it returns them all.  Insertion order is the order of the ids: a
\* new message gets an id above every stored one.
C11_MessagesInTimestampOrder ==
    [][ /\ \A skip \in Skips, limit \in MessageLimits :
             read_messages(skip, limit) =>
                 LET body == done'.body IN
                 /\ done'.status = 200
                 /\ \A i \in DOMAIN body :
                        /\ body[i].id \in DOMAIN messages
                        /\ body[i].timestamp = messages[body[i].id].timestamp
                 /\ \A i, j \in DOMAIN body :
                        i < j => \/ body[i].timestamp < body[j].timestamp
                                 \/ /\ body[i].timestamp = body[j].timestamp
                                    /\ body[i].id < body[j].id
                 /\ (skip = 0 /\ limit >= Cardinality(DOMAIN messages)) =>
                        {body[i].id : i \in DOMAIN body} = DOMAIN messages
        /\ \A sender_id \in DOMAIN users, now \in 0..MaxClock :
             create_message(sender_id, "hi", now) =>
                 \A m \in DOMAIN messages : m < NextId(messages)
      ]_vars

\* two messages of equal timestamp have been returned after a user and its
\* messages were deleted
C11_Witness ==
    /\ done.op = "read_messages"
    /\ Len(done.body) = 2
    /\ done.body[1].timestamp = done.body[2].timestamp
    /\ DOMAIN users # usedIds.users

\* what create_item was given for the item, as a row of a response
CreatedRow(id) ==
    [id |-> id, name |-> created[id].name, description |-> created[id].description]

\* C12: when the table holds N items that were created one after the other
\* and nothing else was done to them, read_items with skip 0 and limit N
\* returns those N items as they were created, in creation order, and
\* read_items with skip N answers 200 with an empty list.  Creation order is
\* the order of the ids: a new item gets an id above every stored one.
C12_PaginationInCreationOrder ==
    [][ /\ \A skip \in ItemSkips, limit \in ItemLimits :
             read_items(skip, limit) =>
                 LET N == Cardinality(DOMAIN items) IN
                 (DOMAIN created = DOMAIN items /\ DOMAIN items = 1..N) =>
                     /\ done'.status = 200
                     /\ (skip = 0 /\ limit = N) =>
                            done'.body = [i \in 1..N |-> CreatedRow(i)]
                     /\ skip = N => done'.body = <<>>
        /\ \A name \in Strs, description \in Strs :
             create_item(name, description) =>
                 \A i \in DOMAIN items : i < NextId(items)
      ]_vars

\* two items created with different values have been listed
C12_Witness ==
    /\ done.op = "read_items"
    /\ Len(done.body) = 2
    /\ DOMAIN created = DOMAIN items
    /\ DOMAIN items = {1, 2}
    /\ done.body = <<CreatedRow(1), CreatedRow(2)>>
    /\ created[1] # created[2]

\* C13: read_item of an id that create_item assigned, when the item was not
\* updated or deleted since, answers 200 with that id and the name and
\* description create_item was given.
C13_CreateThenReadRoundTrip ==
    [][ \A item_id \in DOMAIN created :
            read_item(item_id) =>
                /\ done'.status = 200
                /\ done'.body = <<CreatedRow(item_id)>>
      ]_vars

\* an item has been read back while another one had been updated
C13_Witness ==
    /\ done.op = "read_item"
    /\ done.status = 200
    /\ done.body[1].id \in DOMAIN created
    /\ done.body[1].name # done.body[1].description
    /\ DOMAIN items # DOMAIN created

\* the observers a broadcast has sent its payload to
Recipients(b) == Range(b.sent)

\* C14: an observer that registers has received the payload of no broadcast
\* made so far, and registering delivers nothing to it: the suspended
\* broadcasts and the record of the last finished one stay as they are.  A
\* record of a finished broadcast appears only in a step in which a broadcast
\* leaves the suspended ones or is called.
C14_NoReplay ==
    [][ /\ \A c \in Conns :
             connect(c) =>
                 /\ c \notin Recipients(done)
                 /\ \A t \in DOMAIN bc : c \notin Recipients(bc[t])
                 /\ UNCHANGED <<bc, done>>
        /\ done' # done => (Len(bc') < Len(bc) \/ calls' # calls)
      ]_vars

\* an observer is registered that was not when the one broadcast made so far
\* delivered to another observer and completed
C14_Witness ==
    /\ calls.http = 1
    /\ bc = <<>>
    /\ done.state = "done"
    /\ done.sent # <<>>
    /\ \E c \in Registered : c \notin done.snapshot /\ c \notin Recipients(done)

\* The step is a call of broadcast by an HTTP handler, and the call has sent
\* its payload to an observer before the step ends.
Notified ==
    /\ calls'.http = calls.http + 1
    /\ LET call == IF Len(bc') > Len(bc) THEN bc'[Len(bc')] ELSE done'
       IN  call.sent # <<>>

\* C15: at the end of the step in which a mutating handler first sends its
\* payload to an observer, the tables hold the mutation, so a read made on
\* receipt sees it; the later sends of the broadcast change no table.
C15_CommitPrecedesNotification ==
    [][ /\ Notified =>
             /\ create_item("a", "a") =>
                    /\ NextId(items) \in DOMAIN items'
                    /\ items'[NextId(items)] = NewItem("a", "a")
             /\ \A item_id \in DOMAIN items :
                    /\ \A item \in HandlerPayloads :
                          update_item(item_id, item) =>
                              items'[item_id] = ApplyUpdate(items[item_id], item)
                    /\ delete_item(item_id) => item_id \notin DOMAIN items'
             /\ \A user_id \in DOMAIN users :
                    /\ delete_user(user_id) =>
                          /\ user_id \notin DOMAIN users'
                          /\ \A m \in DOMAIN messages' :
                                messages'[m].sender_id # user_id
                    /\ create_message(user_id, "hi", clock) =>
                          /\ NextId(messages) \in DOMAIN messages'
                          /\ messages'[NextId(messages)].sender_id = user_id
        /\ \A t \in DOMAIN bc :
             broadcast_resume(t) => UNCHANGED <<items, users, messages>>
      ]_vars

\* the deletion of a user has reached the observer, after an item was updated
C15_Witness ==
    /\ done.op = "delete_user"
    /\ done.sent # <<>>
    /\ done.state = "done"
    /\ \E i \in DOMAIN items : items[i].name = "b"
    /\ DOMAIN users # usedIds.users

\* C16: when the broadcast of a frame received on a /ws connection ends, every
\* observer that was registered at the call and still is, the sender among
\* them, has been sent the frame, and the sender's handler is back in
\* receive_text.
C16_FrameEchoedToAll ==
    [][ (done' # done /\ done'.op = "websocket_endpoint") =>
            /\ \A c \in done'.snapshot \cap Range(active_connections') :
                   c \in Recipients(done')
            /\ ws'[done'.conn] = "receiving"
      ]_vars

\* C17: a handle leaves the registry only in a step before which its own
\* connection had closed.
C17_UnregisteredOnlyWhenClosed ==
    [][ \A c \in Registered :
            c \notin Range(active_connections') => link[c] = "closed"
      ]_vars

\* no broadcast is called and the registry, the connections and the
\* suspended broadcasts stay as they are
Quiet == UNCHANGED <<calls, bc, active_connections, ws, link>>

\* C18: create_user and the four read handlers call no broadcast and leave
\* the registry as it is; the read handlers also leave the three tables as
\* they are.
C18_ReadsAndCreateUserAreQuiet ==
    [][ /\ create_user("a") => Quiet
        /\ \A item_id \in 1..MaxId :
             read_item(item_id) => Quiet /\ UNCHANGED <<items, users, messages>>
        /\ \A skip \in Skips :
             /\ \A limit \in Limits :
                   /\ read_items(skip, limit) =>
                          Quiet /\ UNCHANGED <<items, users, messages>>
                   /\ read_users(skip, limit) =>
                          Quiet /\ UNCHANGED <<items, users, messages>>
             /\ \A limit \in MessageLimits :
                   read_messages(skip, limit) =>
                       Quiet /\ UNCHANGED <<items, users, messages>>
      ]_vars

\* messages have been listed while a broadcast was suspended in a send to the
\* registered observer
C18_Witness ==
    /\ done.op = "read_messages"
    /\ done.body # <<>>
    /\ bc # <<>>
    /\ active_connections # <<>>
    /\ DOMAIN items # {}

====
